---------------------------- MODULE Spec2Model ----------------------------
(***************************************************************************)
(* Model of the extended configuration tool (tools/scons/configureex.py):  *)
(* the tool cache (ConfExCache), the configuration environment             *)
(* (ConfExEnvironment: AddAugment, Finalize and their helpers) and the     *)
(* session object (ConfExBase).                                            *)
(*                                                                         *)
(* Python values are represented as follows.                               *)
(*   None (Tool, Component)      the string "None"                         *)
(*   Specification.Components    a sequence; <<>> stands for None (the     *)
(*                               constructor never stores an empty tuple)  *)
(*   Specification.Checks        a sequence of check ids; <<>> is None     *)
(*   Specification.Dependencies  a set of specification ids; {} is None    *)
(*   object identity             Specification.id (one specification and   *)
(*                               one augment object per AddAugment call)   *)
(*   list indexes                0-based as in the source; a sequence s is *)
(*                               read at s[i + 1]                          *)
(***************************************************************************)
EXTENDS Integers, Sequences, FiniteSets, TLC

(***************************************************************************)
(* Bounds of the model.                                                    *)
(***************************************************************************)
\* AddAugment calls made on a session
MaxCalls == 2
\* longest change list the retry loop of AddAugment is followed to
MaxDepth == 3
\* AddAugment calls made on a session of the longer sessions
MaxChain == 3
\* longest list of required checks handed to one _apply_env call
MaxChecks == 2
\* session handles of the session specification
MaxHandles == 3
\* names recorded per listing class of a listing-mode handle
MaxListing == 1
\* the largest offset a look-up is called with on its own
MaxOffset == 2

None == "None"

ToolNames == {"t1", "t2"}
Comps == {"c1", "c2"}
CheckIds == {"k1", "k2"}

(***************************************************************************)
(* Python list helpers.                                                    *)
(***************************************************************************)
RECURSIVE IndexFrom(_, _, _)
IndexFrom(s, x, i) ==
    IF i > Len(s) THEN 0
    ELSE IF s[i] = x THEN i
    ELSE IndexFrom(s, x, i + 1)

\* 1-based position of the first occurrence of x in s, 0 when absent
\* (list.index(x) + 1, ValueError as 0)
IndexOf(s, x) == IndexFrom(s, x, 1)

SeqSet(s) == {s[i] : i \in 1..Len(s)}

\* list.insert(i, x) with a 0-based, possibly negative or too large index
PyInsert(s, i, x) ==
    LET n == Len(s)
        k == IF i < 0 THEN (IF n + i < 0 THEN 0 ELSE n + i)
             ELSE (IF i > n THEN n ELSE i)
    IN  SubSeq(s, 1, k) \o <<x>> \o SubSeq(s, k + 1, n)

\* del list[i] with a valid 0-based index
PyDel(s, i) == SubSeq(s, 1, i) \o SubSeq(s, i + 2, Len(s))

\* list.reverse()
Reverse(s) == [i \in 1..Len(s) |-> s[Len(s) + 1 - i]]

\* list.remove(x): drops the first occurrence
PyRemove(s, x) == PyDel(s, IndexOf(s, x) - 1)

\* number of occurrences of x in s
Count(s, x) == Cardinality({i \in 1..Len(s) : s[i] = x})

\* a local variable: the value v is computed once and named in F
With(v, F(_)) == F(v)

VARIABLES
    \* --- the world outside the resolver (never changes) ---
    env_base,        \* keys of the base environment that candidates can name
    tool_effect,     \* per tool: what applying it to an environment does
    check_effect,    \* the results a check can give, per set of applied
                     \* tools: triples <<check, tools, result>>
    \* --- ConfExCache ---
    Tools,           \* ConfExCache.Tools: the provider order
    Components,      \* ConfExCache.Components: tool -> (component -> flag)
    \* --- ConfExEnvironment ---
    augments,        \* self._augments: the committed augment list
    applied_tools,   \* self.__applied_tools
    applied_checks,  \* self.__applied_checks
    current,         \* self._current: its TOOLS list, the tools applied
                     \* to it since it was cloned from the base environment
                     \* and the checks that did not pass when last run on it
    calls,           \* AddAugment calls made so far
    \* --- AddAugment in progress (its local variables) ---
    pc,              \* "idle" or "loop" (inside the while loop of AddAugment)
    loc_augments,    \* augments: the cloned, tentative list
    change,          \* change
    changes,         \* changes: stack of pending change lists
    do_loop,         \* do_loop
    call_log,        \* log of the call: candidates, retries, GetTool calls of
                     \* the initial selection
    \* --- what the caller and the log saw of the last operation ---
    outcome,         \* result handed to the caller of the last call
    last_pass,       \* record of the last ordering / validation attempt
    \* --- ConfExBase ---
    Active,          \* ConfExBase._Active
    handles          \* per session handle: its life cycle and listing

world_vars == <<env_base, tool_effect, check_effect>>
cache_vars == <<Tools, Components>>
env_vars == <<augments, applied_tools, applied_checks, current>>
session_vars == <<calls>>
call_vars == <<pc, loc_augments, change, changes, do_loop, call_log>>
log_vars == <<outcome, last_pass>>
base_vars == <<Active, handles>>
vars == <<world_vars, cache_vars, env_vars, session_vars, call_vars, log_vars,
          base_vars>>

(***************************************************************************)
(* ConfExEnvironment.Detect: the tools and components a tool adds.  The    *)
(* first application records the modified component keys as "no_overlap";  *)
(* the keys modified by the second application lose the flag.              *)
(***************************************************************************)
Detect(tool) ==
    LET e == tool_effect[tool]
    IN  [tools |-> e.tools,
         components |-> [c \in e.first \cup e.second |->
                            IF c \in e.second THEN "overlap"
                            ELSE "no_overlap"]]

(***************************************************************************)
(* ConfExCache.AddTool                                                     *)
(***************************************************************************)
RECURSIVE AddToolLoop(_, _, _, _, _, _)
AddToolLoop(T, C, tools_stack, tools, tool_idx, offset) ==
    IF tools = <<>>
    THEN IF tools_stack = <<>>
         THEN [Tools |-> T, Components |-> C]
         ELSE AddToolLoop(T, C, Tail(tools_stack), Head(tools_stack),
                          tool_idx - offset, offset)
    ELSE LET tool == Head(tools)
             rest == Tail(tools)
             orig_idx == IndexOf(T, tool) - 1
             T1 == IF orig_idx = -1 THEN PyInsert(T, tool_idx, tool)
                   ELSE IF orig_idx > tool_idx
                        THEN PyInsert(PyDel(T, orig_idx), tool_idx, tool)
                        ELSE T
         IN  IF tool \in DOMAIN C
             THEN AddToolLoop(T1, C, tools_stack, rest, tool_idx, offset)
             ELSE LET d == Detect(tool)
                      C1 == [x \in DOMAIN C \cup {tool} |->
                                IF x = tool THEN d.components ELSE C[x]]
                  IN  IF Len(d.tools) > 1
                      THEN AddToolLoop(T1, C1, <<rest>> \o tools_stack,
                                       d.tools, tool_idx, Len(d.tools))
                      ELSE AddToolLoop(T1, C1, tools_stack, rest, tool_idx,
                                       offset)

\* AddTool that looks every tool up again
AddTool_again(T, C, tool) ==
    LET T0 == IF IndexOf(T, tool) = 0 THEN Append(T, tool) ELSE T
        none == [t \in {} |-> [c \in {} |-> "overlap"]]
    IN  AddToolLoop(T0, none, <<<<tool>>>>, <<>>, IndexOf(T0, tool) - 1, 0)

AddTool(T, C, tool) ==
    LET T0 == IF IndexOf(T, tool) = 0 THEN Append(T, tool) ELSE T
    IN  AddToolLoop(T0, C, <<<<tool>>>>, <<>>, IndexOf(T0, tool) - 1, 0)

(***************************************************************************)
(* ConfExCache.GetTool                                                     *)
(***************************************************************************)
\* the inner loop over the candidate components of one tool
RECURSIVE GetToolComponents(_, _, _, _, _)
GetToolComponents(components, provided, component_idx, offset, forward) ==
    IF component_idx < 0 \/ component_idx >= Len(components)
    THEN [found |-> FALSE, component |-> None, offset |-> offset]
    ELSE LET component == components[component_idx + 1]
             next == IF forward THEN component_idx + 1 ELSE component_idx - 1
         IN  IF component \in provided
             THEN IF offset < 0
                  THEN GetToolComponents(components, provided, next,
                                         offset + 1, forward)
                  ELSE IF offset > 0
                  THEN GetToolComponents(components, provided, next,
                                         offset - 1, forward)
                  ELSE [found |-> TRUE, component |-> component,
                        offset |-> offset]
             ELSE GetToolComponents(components, provided, next, offset,
                                    forward)

\* the outer loop over the tools of the cache
RECURSIVE GetToolLoop(_, _, _, _, _, _, _)
GetToolLoop(T, C, components, tool_idx, component_idx, offset, forward) ==
    IF tool_idx < 0 \/ tool_idx >= Len(T)
    THEN [found |-> FALSE, component |-> None, tool |-> None,
          offset |-> offset, Tools |-> T, Components |-> C]
    ELSE LET tool == T[tool_idx + 1]
         IN  IF tool \notin DOMAIN C
             THEN With(AddTool(T, C, tool), LAMBDA a :
                      GetToolLoop(a.Tools, a.Components, components,
                                  tool_idx, component_idx, offset, forward))
             ELSE LET s == GetToolComponents(components, DOMAIN C[tool],
                                             component_idx, offset, forward)
                  IN  IF s.found
                      THEN [found |-> TRUE, component |-> s.component,
                            tool |-> tool, offset |-> s.offset,
                            Tools |-> T, Components |-> C]
                      ELSE GetToolLoop(T, C, components,
                              IF forward THEN tool_idx + 1 ELSE tool_idx - 1,
                              IF forward THEN 0 ELSE Len(components) - 1,
                              s.offset, forward)

\* GetTool that starts at the last tool when it is given no reference tool
GetTool_last(T, C, components, ref_component, ref_tool, offset) ==
    IF Len(T) = 0
    THEN [found |-> FALSE, component |-> None, tool |-> None,
          offset |-> offset, Tools |-> T, Components |-> C]
    ELSE GetToolLoop(T, C, components,
                     IF ref_tool # None THEN IndexOf(T, ref_tool) - 1
                     ELSE Len(T) - 1,
                     IF ref_component # None
                     THEN IndexOf(components, ref_component) - 1 ELSE 0,
                     offset, offset >= 0)

GetTool(T, C, components, ref_component, ref_tool, offset) ==
    IF Len(T) = 0
    THEN [found |-> FALSE, component |-> None, tool |-> None,
          offset |-> offset, Tools |-> T, Components |-> C]
    ELSE GetToolLoop(T, C, components,
                     IF ref_tool # None THEN IndexOf(T, ref_tool) - 1 ELSE 0,
                     IF ref_component # None
                     THEN IndexOf(components, ref_component) - 1 ELSE 0,
                     offset, offset >= 0)

(***************************************************************************)
(* ConfExEnvironment.__set_component_local                                 *)
(***************************************************************************)
RECURSIVE set_component_local_loop(_, _, _, _)
set_component_local_loop(components, component_idx, offset, forward) ==
    IF component_idx < 0 \/ component_idx >= Len(components)
    THEN [component |-> None, offset |-> offset]
    ELSE LET component == components[component_idx + 1]
             next == IF forward THEN component_idx + 1 ELSE component_idx - 1
         IN  IF component \in env_base
             THEN IF offset < 0
                  THEN set_component_local_loop(components, next, offset + 1,
                                                forward)
                  ELSE IF offset > 0
                  THEN set_component_local_loop(components, next, offset - 1,
                                                forward)
                  ELSE [component |-> component, offset |-> offset]
             ELSE set_component_local_loop(components, next, offset, forward)

\* set_component_local that tests the first candidate only
set_component_local_first(components, ref_component, offset) ==
    IF components[1] \in env_base /\ offset = 0
    THEN [component |-> components[1], offset |-> offset]
    ELSE [component |-> None, offset |-> offset]

set_component_local(components, ref_component, offset) ==
    set_component_local_loop(components,
        IF ref_component # None THEN IndexOf(components, ref_component) - 1
        ELSE 0,
        offset, offset >= 0)

(***************************************************************************)
(* ConfExEnvironment._set_component.  The result carries the selection,    *)
(* the cache as the look-ups left it, the number of GetTool calls made and *)
(* error = TRUE when the call raises (len() of Components = None).         *)
(***************************************************************************)
\* order in which the two sources are tried
set_component_order(offset) ==
    IF offset < 0 THEN <<"TOOL", "LOCAL">> ELSE <<"LOCAL", "TOOL">>

RECURSIVE set_component_sources(_, _, _, _, _, _, _)
set_component_sources(sources, augment, ref_component, offset, T, C, n) ==
    LET components == augment.Specification.Components
    IN  IF sources = <<>>
        THEN [component_set |-> FALSE, error |-> FALSE, Component |-> None,
              Tool |-> None, Tools |-> T, Components |-> C,
              cache_calls |-> n]
        ELSE IF Head(sources) = "LOCAL"
        THEN LET r == set_component_local(components, ref_component, offset)
             IN  IF r.component # None
                 THEN [component_set |-> TRUE, error |-> FALSE,
                       Component |-> r.component, Tool |-> None,
                       Tools |-> T, Components |-> C, cache_calls |-> n]
                 ELSE set_component_sources(Tail(sources), augment,
                          components[1], r.offset, T, C, n)
        ELSE With(GetTool(T, C, components, ref_component, augment.Tool,
                          offset), LAMBDA g :
                 IF g.found
                 THEN [component_set |-> TRUE, error |-> FALSE,
                       Component |-> g.component, Tool |-> g.tool,
                       Tools |-> g.Tools, Components |-> g.Components,
                       cache_calls |-> n + 1]
                 ELSE set_component_sources(Tail(sources), augment,
                          components[Len(components)], g.offset,
                          g.Tools, g.Components, n + 1))

set_component(augment, offset, T, C) ==
    LET sources == set_component_order(offset)
        src_start == IF augment.Tool # None THEN IndexOf(sources, "TOOL")
                     ELSE IndexOf(sources, "LOCAL")
    IN  IF augment.Specification.Components = <<>>
        THEN [component_set |-> FALSE, error |-> TRUE, Component |-> None,
              Tool |-> None, Tools |-> T, Components |-> C,
              cache_calls |-> 0]
        ELSE set_component_sources(SubSeq(sources, src_start, Len(sources)),
                 augment, augment.Component, offset, T, C, 0)

\* set_augment that leaves the tool of the augment as it was
set_augment_component(augment, r) ==
    IF r.component_set
    THEN [augment EXCEPT !.Component = r.Component, !.Valid = FALSE]
    ELSE augment

\* the augment as _set_component leaves it
set_augment(augment, r) ==
    IF r.component_set
    THEN [augment EXCEPT !.Component = r.Component, !.Tool = r.Tool,
                         !.Valid = FALSE]
    ELSE augment

(***************************************************************************)
(* ConfExEnvironment._order_augments.  The result carries the pair of      *)
(* incompatible augments (their specification ids, <<>> when there is      *)
(* none) and the list as the call leaves it: ordered, or still reversed    *)
(* when the ordering was given up.                                         *)
(***************************************************************************)
\* order_position that puts every augment behind the ordered ones
order_position_last(augment, ordered, i, active_idx, overlap_component, tool_present, C) ==
    [incompatible |-> FALSE, active_idx |-> Len(ordered), other |-> 0]

\* the inner loop: the position of one augment among the ordered ones
RECURSIVE order_position(_, _, _, _, _, _, _)
order_position(augment, ordered, i, active_idx, overlap_component, tool_present, C) ==
    IF i >= Len(ordered)
    THEN [incompatible |-> FALSE, active_idx |-> active_idx, other |-> 0]
    ELSE LET o == ordered[i + 1]
         IN  IF augment.Tool # None /\ augment.Tool = o.Tool
             THEN order_position(augment, ordered, i + 1,
                      IF tool_present THEN active_idx ELSE i,
                      overlap_component, TRUE, C)
             ELSE LET overlap == \/ overlap_component
                                 \/ /\ augment.Tool # None
                                    /\ o.Component \in DOMAIN C[augment.Tool]
                  IN  IF /\ o.Tool # None
                         /\ augment.Component \in DOMAIN C[o.Tool]
                      THEN IF overlap \/ tool_present
                           THEN [incompatible |-> TRUE,
                                 active_idx |-> active_idx,
                                 other |-> o.Specification.id]
                           ELSE order_position(augment, ordered, i + 1,
                                    i + 1, overlap, tool_present, C)
                      ELSE order_position(augment, ordered, i + 1,
                               active_idx, overlap, tool_present, C)

RECURSIVE order_loop(_, _, _)
order_loop(todo, ordered, C) ==
    IF todo = <<>>
    THEN [incompatibility |-> <<>>, ordered |-> ordered]
    ELSE LET augment == Head(todo)
             no_overlap == /\ augment.Tool # None
                           /\ C[augment.Tool][augment.Component] = "no_overlap"
         IN  With(order_position(augment, ordered, 0, 0, no_overlap, FALSE,
                                 C), LAMBDA p :
             IF p.incompatible
             THEN [incompatibility |-> <<augment.Specification.id, p.other>>,
                   ordered |-> ordered]
             ELSE order_loop(Tail(todo),
                             PyInsert(ordered, p.active_idx, augment), C))

order_augments(augs, C) ==
    With(Reverse(augs), LAMBDA reversed :
    With(order_loop(reversed, <<>>, C), LAMBDA r :
        [incompatibility |-> r.incompatibility,
         augments |-> IF r.incompatibility # <<>> THEN reversed
                      ELSE r.ordered]))

(***************************************************************************)
(* Check results.  A check returns a value or raises; the values that      *)
(* matter are True and False.                                              *)
(***************************************************************************)
CheckResults == {"True", "False", "raise"}

\* the strings a check can return: the empty string and an error message
StrResults == {"''", "'error'"}

\* every result of a check: the above, a string or None
PyResults == CheckResults \cup StrResults \cup {None}

\* the test written as 'not result'
IsFailed_falsy(result) == result \in {"False", "''", None}

\* the test of _apply_env on a returned value:
\* (result == False) or ((type(result) is str) and (result != ""))
IsFailed(result) ==
    \/ result = "False"
    \/ (result \in StrResults /\ result # "''")

(***************************************************************************)
(* ConfExEnvironment.__reset_environment (no pre-configure variables set)  *)
(***************************************************************************)
BaseTOOLS == <<>>

\* reset_environment that leaves the list of applied tools as it is
reset_environment_keep ==
    [current |-> [TOOLS |-> BaseTOOLS, applied |-> <<>>, unpassed |-> {}],
     applied_tools |-> applied_tools,
     applied_checks |-> <<>>]

reset_environment ==
    [current |-> [TOOLS |-> BaseTOOLS, applied |-> <<>>, unpassed |-> {}],
     applied_tools |-> <<>>,
     applied_checks |-> <<>>]

(***************************************************************************)
(* ConfExEnvironment._apply_env, first half: decide between appending and  *)
(* a reset, then apply the tools.                                          *)
(***************************************************************************)
\* the loop that looks for the start of the tools to append
RECURSIVE apply_env_scan(_, _, _, _, _)
apply_env_scan(tools, applied, i, expected, append) ==
    IF i >= Len(tools)
    THEN [reset |-> FALSE, append |-> append]
    ELSE LET actual == IndexOf(applied, tools[i + 1]) - 1
         IN  IF actual # -1
             THEN LET expected1 ==
                          IF /\ i = 0
                             /\ \/ Len(tools) > 1
                                \/ actual = Len(applied) - 1
                          THEN actual ELSE expected
                  IN  IF actual = expected1
                      THEN apply_env_scan(tools, applied, i + 1,
                                          expected1 + 1, append)
                      ELSE [reset |-> TRUE, append |-> append]
             ELSE IF expected = -1
                  THEN apply_env_scan(tools, applied, i + 1, expected, 0)
                  ELSE IF expected = Len(applied)
                       THEN apply_env_scan(tools, applied, i + 1, expected,
                                IF append = Len(tools) THEN i ELSE append)
                       ELSE [reset |-> TRUE, append |-> append]

\* applying one tool to the current environment and trimming its TOOLS list
RECURSIVE apply_env_tools(_, _, _, _, _)
apply_env_tools(tools, i, expected_len, applied, cur) ==
    IF i >= Len(tools)
    THEN [applied_tools |-> applied, current |-> cur]
    ELSE LET tool == tools[i + 1]
             grown == cur.TOOLS \o tool_effect[tool].tools
             trimmed == IF Len(grown) > expected_len
                        THEN SubSeq(grown, 1, expected_len) ELSE grown
         IN  apply_env_tools(tools, i + 1, expected_len + 1,
                             Append(applied, tool),
                             [cur EXCEPT !.TOOLS = trimmed,
                                         !.applied = Append(@, tool)])

\* exact_reset that never asks for a reset
exact_reset_never(tools, exact, st) == FALSE

\* the exact apply gives up when an applied tool is not among the tools
exact_reset(tools, exact, st) ==
    exact /\ \E i \in 1..Len(st.applied_tools) :
                 st.applied_tools[i] \notin SeqSet(tools)

apply_env_start(tools, exact, st) ==
    With(IF exact_reset(tools, exact, st)
         THEN [reset |-> TRUE, append |-> Len(tools)]
         ELSE apply_env_scan(tools, st.applied_tools, 0, -1, Len(tools)),
         LAMBDA scan :
    With(IF scan.reset THEN reset_environment ELSE st, LAMBDA st0 :
    With(IF scan.reset THEN 0 ELSE scan.append, LAMBDA start :
    With(apply_env_tools(tools, start, Len(st0.current.TOOLS) + 1,
                         st0.applied_tools, st0.current), LAMBDA a :
        [reset |-> scan.reset, start |-> start,
         applied_tools |-> a.applied_tools,
         applied_checks |-> st0.applied_checks,
         current |-> a.current]))))

(***************************************************************************)
(* ConfExEnvironment._apply_env, second half: run the checks.  todo is the *)
(* required checks followed by the optional ones; results gives the result *)
(* of the n-th executed check.                                             *)
(***************************************************************************)
check_list(req_checks, opt_checks) ==
    [i \in 1..Len(req_checks) |-> [check |-> req_checks[i], required |-> TRUE]]
    \o [i \in 1..Len(opt_checks) |->
           [check |-> opt_checks[i], required |-> FALSE]]

RECURSIVE apply_env_checks(_, _, _, _, _)
apply_env_checks(todo, applied, results, failed, executed) ==
    IF todo = <<>>
    THEN [applied_checks |-> applied, failed_checks |-> failed,
          executed |-> executed, raised |-> FALSE]
    ELSE LET check == Head(todo).check
             known == check \in SeqSet(applied)
             applied1 == IF known THEN applied ELSE Append(applied, check)
         IN  IF known /\ ~Head(todo).required
             THEN apply_env_checks(Tail(todo), applied1, results, failed,
                                   executed)
             ELSE LET result == results[Len(executed) + 1]
                  IN  IF result = "raise"
                      THEN [applied_checks |-> applied1,
                            failed_checks |-> failed,
                            executed |-> Append(executed, check),
                            raised |-> TRUE]
                      ELSE apply_env_checks(Tail(todo), applied1, results,
                               IF IsFailed(result) THEN Append(failed, check)
                               ELSE failed,
                               Append(executed, check))

\* the number of checks a pass executes when none of them raises
RECURSIVE checks_executed(_, _)
checks_executed(todo, applied) ==
    IF todo = <<>> THEN 0
    ELSE LET check == Head(todo).check
             known == check \in SeqSet(applied)
             applied1 == IF known THEN applied ELSE Append(applied, check)
         IN  (IF known /\ ~Head(todo).required THEN 0 ELSE 1)
             + checks_executed(Tail(todo), applied1)

\* the checks whose latest execution on the current environment did not
\* pass, after the executions of a pass
RECURSIVE unpassed_checks(_, _, _, _)
unpassed_checks(unpassed, executed, results, i) ==
    IF i > Len(executed) THEN unpassed
    ELSE unpassed_checks(IF results[i] = "raise" \/ IsFailed(results[i])
                         THEN unpassed \cup {executed[i]}
                         ELSE unpassed \ {executed[i]},
                         executed, results, i + 1)

\* _apply_env as a whole
apply_env(tools, exact, req_checks, opt_checks, st, results) ==
    With(apply_env_start(tools, exact, st), LAMBDA s :
    With(apply_env_checks(check_list(req_checks, opt_checks),
                          s.applied_checks, results, <<>>, <<>>), LAMBDA c :
        [reset |-> s.reset, start |-> s.start,
         applied_tools |-> s.applied_tools,
         applied_checks |-> c.applied_checks,
         current |-> [s.current EXCEPT !.unpassed =
                         unpassed_checks(@, c.executed, results, 1)],
         failed_checks |-> c.failed_checks,
         executed |-> c.executed,
         raised |-> c.raised]))

\* result = check(): the results of the executed checks are results the
\* checks can give in the environment the pass has applied
fits(results, e) ==
    \A i \in 1..Len(e.executed) :
        <<e.executed[i], SeqSet(e.applied_tools), results[i]>> \in check_effect

(***************************************************************************)
(* ConfExEnvironment._validate_augments                                    *)
(***************************************************************************)
\* a valid augment that an invalid augment names as a dependency
dependency_augment(augment, augs) ==
    /\ augment.Valid
    /\ \E j \in 1..Len(augs) :
           /\ ~augs[j].Valid
           /\ augment.Specification.id \in augs[j].Specification.Dependencies

\* the tools, checks and dependency checks collected by the first loop
RECURSIVE validate_collect(_, _, _)
validate_collect(augs, i, acc) ==
    IF i > Len(augs) THEN acc
    ELSE LET augment == augs[i]
             dep == dependency_augment(augment, augs)
         IN  IF augment.Valid /\ ~dep
             THEN validate_collect(augs, i + 1, acc)
             ELSE validate_collect(augs, i + 1,
                    [tools |-> IF augment.Tool # None
                               THEN Append(acc.tools, augment.Tool)
                               ELSE acc.tools,
                     checks |-> IF dep THEN acc.checks
                                ELSE acc.checks \o augment.Specification.Checks,
                     depends_checks |->
                                IF dep
                                THEN acc.depends_checks
                                     \o augment.Specification.Checks
                                ELSE acc.depends_checks])

validate_inputs(augs) ==
    validate_collect(augs, 1,
                     [tools |-> <<>>, checks |-> <<>>, depends_checks |-> <<>>])

\* validate_mark that also marks the augments depending on a marked one
validate_mark_inherit(augs, failed_checks) ==
    LET owns(a) == \E j \in 1..Len(failed_checks) :
                      failed_checks[j] \in SeqSet(a.Specification.Checks)
    IN  [i \in 1..Len(augs) |->
            [augs[i] EXCEPT !.Valid =
                ~(\/ owns(augs[i])
                  \/ \E j \in 1..Len(augs) :
                        /\ augs[j].Specification.id
                              \in augs[i].Specification.Dependencies
                        /\ owns(augs[j]))]]

\* validate_mark without the "augment.Valid = True" of the second loop
validate_mark_keep(augs, failed_checks) ==
    [i \in 1..Len(augs) |->
        [augs[i] EXCEPT !.Valid =
            /\ augs[i].Valid
            /\ ~(\E j \in 1..Len(failed_checks) :
                    failed_checks[j] \in SeqSet(augs[i].Specification.Checks))]]

\* the second loop: mark the augments that own a failed check
validate_mark(augs, failed_checks) ==
    [i \in 1..Len(augs) |->
        [augs[i] EXCEPT !.Valid =
            ~(\E j \in 1..Len(failed_checks) :
                 failed_checks[j] \in SeqSet(augs[i].Specification.Checks))]]

\* invalid_augments that never reports an augment
invalid_augments_none(augs, i) == <<>>

\* the augments the second loop reports: those it marked invalid
RECURSIVE invalid_augments(_, _)
invalid_augments(augs, i) ==
    IF i > Len(augs) THEN <<>>
    ELSE (IF augs[i].Valid THEN <<>> ELSE <<augs[i].Specification.id>>)
         \o invalid_augments(augs, i + 1)

\* number of check results a validation pass of augs consumes
validate_results(augs, st) ==
    With(validate_inputs(augs), LAMBDA in :
        checks_executed(check_list(in.checks, in.depends_checks),
                        apply_env_start(in.tools, FALSE, st).applied_checks))

validate_augments(augs, st, results) ==
    With(validate_inputs(augs), LAMBDA in :
    With(apply_env(in.tools, FALSE, in.checks, in.depends_checks, st,
                   results), LAMBDA e :
    With(validate_mark(augs, e.failed_checks), LAMBDA marked :
        [raised |-> e.raised,
         augments |-> IF e.raised THEN augs ELSE marked,
         invalid_augments |-> IF e.raised THEN <<>>
                              ELSE invalid_augments(marked, 1),
         env |-> e, tools |-> in.tools, checks |-> in.checks,
         depends_checks |-> in.depends_checks])))

(***************************************************************************)
(* ConfExEnvironment._clone_augments                                       *)
(***************************************************************************)
clone_augments(augs) ==
    [i \in 1..Len(augs) |->
        [Specification |-> augs[i].Specification,
         Component |-> augs[i].Component,
         Tool |-> augs[i].Tool,
         Valid |-> augs[i].Valid]]

\* ConfExEnvironmentAugment.__init__
new_augment(spec) ==
    [Specification |-> spec, Component |-> None, Tool |-> None,
     Valid |-> FALSE]

(***************************************************************************)
(* The retry loop of AddAugment: the delta of two change lists and its     *)
(* application.                                                            *)
(***************************************************************************)
RECURSIVE delta_index(_, _, _)
delta_index(delta, a, i) ==
    IF i > Len(delta) THEN 0
    ELSE IF delta[i].augment = a THEN i
    ELSE delta_index(delta, a, i + 1)

RECURSIVE delta_add(_, _, _)
delta_add(delta, ids, offset) ==
    IF ids = <<>> THEN delta
    ELSE LET idx == delta_index(delta, Head(ids), 1)
             d1 == IF idx = 0
                   THEN Append(delta, [augment |-> Head(ids),
                                       offset |-> offset])
                   ELSE IF delta[idx].offset + offset = 0
                        THEN PyDel(delta, idx - 1)
                        ELSE [delta EXCEPT ![idx].offset = @ + offset]
         IN  delta_add(d1, Tail(ids), offset)

\* change_delta that takes every entry of the new change list as a step
change_delta_new(new_change, last_change) == delta_add(<<>>, new_change, 1)

change_delta(new_change, last_change) ==
    delta_add(delta_add(<<>>, new_change, 1), last_change, -1)

RECURSIVE augment_index(_, _, _)
augment_index(augs, id, i) ==
    IF i > Len(augs) THEN 0
    ELSE IF augs[i].Specification.id = id THEN i
    ELSE augment_index(augs, id, i + 1)

\* "Apply change delta": status is "ok", "no_component" (a probe found no
\* candidate at delta entry i) or "error" (a probe raised)
RECURSIVE apply_delta(_, _, _, _, _)
apply_delta(delta, i, augs, T, C) ==
    IF i >= Len(delta)
    THEN [status |-> "ok", i |-> i, augments |-> augs, Tools |-> T,
          Components |-> C]
    ELSE With(augment_index(augs, delta[i + 1].augment, 1), LAMBDA pos :
         With(set_component(augs[pos], delta[i + 1].offset, T, C), LAMBDA r :
             IF r.error
             THEN [status |-> "error", i |-> i, augments |-> augs,
                   Tools |-> T, Components |-> C]
             ELSE IF ~r.component_set
             THEN [status |-> "no_component", i |-> i, augments |-> augs,
                   Tools |-> r.Tools, Components |-> r.Components]
             ELSE apply_delta(delta, i + 1,
                      [augs EXCEPT ![pos] = set_augment(@, r)],
                      r.Tools, r.Components)))

\* "Update change to what was actually set"
RECURSIVE repeat_change(_, _, _)
repeat_change(chg, a, offset) ==
    IF offset = 0 THEN chg
    ELSE IF offset > 0 THEN repeat_change(Append(chg, a), a, offset - 1)
    ELSE repeat_change(PyRemove(chg, a), a, offset + 1)

\* actual_change that forgets the entries that were applied
actual_change_none(chg, delta, x, i) == chg

RECURSIVE actual_change(_, _, _, _)
actual_change(chg, delta, x, i) ==
    IF x >= i THEN chg
    ELSE actual_change(repeat_change(chg, delta[x + 1].augment,
                                     delta[x + 1].offset),
                       delta, x + 1, i)

\* the change lists pushed for the conflicting augments
RECURSIVE new_changes(_, _)
new_changes(chg, conflicting) ==
    IF conflicting = <<>> THEN <<>>
    ELSE <<Append(chg, Head(conflicting))>>
         \o new_changes(chg, Tail(conflicting))

\* commit that takes over the tentative list of every pass
commit_always(committed, tentative, accepted) == tentative

\* self._augments after a validation pass: the tentative list when the pass
\* reported no invalid augment, the committed list otherwise
commit(committed, tentative, accepted) ==
    IF accepted THEN tentative ELSE committed

(***************************************************************************)
(* Requests: the specifications __find builds for the four entry points of *)
(* ConfExBase.  A request without components always carries a check        *)
(* (Require, FindLibrary with a check).                                    *)
(***************************************************************************)
CandidateLists == {<<"c1">>, <<"c2">>, <<"c1", "c2">>, <<"c2", "c2">>}

CheckLists == {<<>>} \cup {<<k>> : k \in CheckIds}

Requests ==
    LET committed == {augments[i].Specification.id : i \in 1..Len(augments)}
    IN  {[Components |-> l, Checks |-> c, Dependencies |-> d] :
            l \in CandidateLists \cup {<<>>}, c \in CheckLists,
            d \in SUBSET committed}
        \ {[Components |-> <<>>, Checks |-> <<>>, Dependencies |-> d] :
            d \in SUBSET committed}

\* ConfExSpecification.__init__ (the display name is left out)
ConfExSpecification(id, request) ==
    [id |-> id, Components |-> request.Components,
     Checks |-> request.Checks, Dependencies |-> request.Dependencies]

new_log(components, cache_calls) ==
    [Components |-> components, retries |-> 0, cache_calls |-> cache_calls,
     tried |-> <<>>, clean |-> TRUE, partial |-> FALSE]

env_state == [applied_tools |-> applied_tools,
              applied_checks |-> applied_checks,
              current |-> current]

no_pass == [step |-> "none", failed |-> {}, executed |-> <<>>,
            results |-> {}, reset |-> FALSE, tools |-> <<>>,
            augments |-> <<>>, conflict |-> <<>>, required |-> <<>>,
            optional |-> <<>>]

\* the results the checks of a pass gave
given(results, executed) == {results[i] : i \in 1..Len(executed)}

pass_record(step, v, results) ==
    [step |-> step, failed |-> SeqSet(v.env.failed_checks),
     executed |-> v.env.executed,
     results |-> given(results, v.env.executed),
     reset |-> v.env.reset, tools |-> v.tools,
     augments |-> v.augments, conflict |-> v.invalid_augments,
     required |-> v.checks, optional |-> v.depends_checks]

(***************************************************************************)
(* ConfExEnvironment.AddAugment up to its while loop.  outcome.result is   *)
(* what the call hands back: "added" (True), "failed" (False), "raised"    *)
(* (an exception leaves the call) or "pending" while the loop runs.        *)
(***************************************************************************)
AddAugment(request) ==
    /\ pc = "idle"
    /\ calls' = calls + 1
    /\ LET spec == ConfExSpecification(calls + 1, request)
           augment == new_augment(spec)
           augs == Append(clone_augments(augments), augment)
       IN  IF spec.Components = <<>>
           THEN \E results \in [1..validate_results(augs, env_state)
                                  -> CheckResults] :
                \E v \in {validate_augments(augs, env_state, results)} :
                  LET added == ~v.raised /\ v.invalid_augments = <<>>
                  IN  /\ fits(results, v.env)
                      /\ augments' = commit(augments, v.augments, added)
                      /\ applied_tools' = v.env.applied_tools
                      /\ applied_checks' = v.env.applied_checks
                      /\ current' = v.env.current
                      /\ outcome' = [op |-> "AddAugment",
                                     result |-> IF v.raised THEN "raised"
                                                ELSE IF added THEN "added"
                                                ELSE "failed"]
                      /\ last_pass' = pass_record(IF v.raised THEN "raised"
                                                  ELSE "validated", v,
                                                  results)
                      /\ call_log' = new_log(spec.Components, 0)
                      /\ UNCHANGED <<pc, loc_augments, change, changes,
                                     do_loop, cache_vars>>
           ELSE \E r \in {set_component(augment, 0, Tools, Components)} :
                    /\ Tools' = r.Tools
                    /\ Components' = r.Components
                    /\ call_log' = new_log(spec.Components, r.cache_calls)
                    /\ last_pass' = [no_pass EXCEPT !.step = "select"]
                    /\ IF r.component_set
                       THEN /\ pc' = "loop"
                            /\ loc_augments' =
                                  Append(clone_augments(augments),
                                         set_augment(augment, r))
                            /\ change' = <<>>
                            /\ changes' = <<>>
                            /\ do_loop' = TRUE
                            /\ outcome' = [op |-> "AddAugment",
                                           result |-> "pending"]
                       ELSE /\ outcome' = [op |-> "AddAugment",
                                           result |-> "failed"]
                            /\ UNCHANGED <<pc, loc_augments, change,
                                           changes, do_loop>>
                    /\ UNCHANGED env_vars
    /\ UNCHANGED <<world_vars, base_vars>>

\* what a validation pass adds to the log of the call: the tool the new
\* augment was validated with and whether it came out valid; the call stays
\* clean as long as no other augment was reported
pass_log(log, v) ==
    IF v.raised THEN log
    ELSE LET new == v.augments[augment_index(v.augments, calls, 1)]
         IN  [log EXCEPT
                 !.tried = Append(@, <<new.Tool, new.Valid>>),
                 !.clean = @ /\ SeqSet(v.invalid_augments) \subseteq {calls}]

(***************************************************************************)
(* One iteration of the while loop of AddAugment.                          *)
(***************************************************************************)
\* the call returns: its locals are dropped
call_returns ==
    /\ pc' = "idle"
    /\ loc_augments' = <<>>
    /\ change' = <<>>
    /\ changes' = <<>>
    /\ do_loop' = FALSE

\* the loop that ends with every probe that finds no component
loop_ends_always(pending) == TRUE

\* "while (len(changes) or do_loop)" after a probe found no component
loop_ends(pending) == pending = <<>>

AddAugmentLoop ==
    /\ pc = "loop"
    /\ IF do_loop THEN TRUE ELSE Len(changes[Len(changes)]) <= MaxDepth
    /\ LET last_change == change
           new_change == IF do_loop THEN change ELSE changes[Len(changes)]
           pending == IF do_loop THEN changes
                      ELSE SubSeq(changes, 1, Len(changes) - 1)
           delta == IF do_loop THEN <<>>
                    ELSE change_delta(new_change, last_change)
           log == [call_log EXCEPT
                      !.retries = IF do_loop THEN @ ELSE @ + 1]
       IN  \E d \in {apply_delta(delta, 0, loc_augments, Tools, Components)} :
           /\ Tools' = d.Tools
           /\ Components' = d.Components
           /\ CASE d.status = "error" ->
                     \* the exception leaves AddAugment
                     /\ call_returns
                     /\ call_log' = log
                     /\ outcome' = [op |-> "AddAugment", result |-> "raised"]
                     /\ last_pass' = [no_pass EXCEPT !.step = "error"]
                     /\ UNCHANGED env_vars
                [] d.status = "no_component" ->
                     /\ last_pass' = [no_pass EXCEPT !.step = "no_component"]
                     /\ call_log' = [log EXCEPT !.partial = @ \/ d.i > 0]
                     /\ UNCHANGED env_vars
                     /\ IF loop_ends(pending)
                        THEN /\ call_returns
                             /\ outcome' = [op |-> "AddAugment",
                                            result |-> "failed"]
                        ELSE /\ change' = actual_change(last_change, delta,
                                                        0, d.i)
                             /\ changes' = pending
                             /\ loc_augments' = d.augments
                             /\ do_loop' = FALSE
                             /\ UNCHANGED <<pc, outcome>>
                [] d.status = "ok" ->
                     \E o \in {order_augments(d.augments, d.Components)} :
                         IF o.incompatibility # <<>>
                         THEN /\ change' = new_change
                              /\ changes' = pending \o
                                     new_changes(new_change, o.incompatibility)
                              /\ loc_augments' = o.augments
                              /\ do_loop' = FALSE
                              /\ call_log' = [log EXCEPT !.clean = FALSE]
                              /\ last_pass' =
                                     [no_pass EXCEPT
                                         !.step = "conflict",
                                         !.augments = o.augments,
                                         !.conflict = o.incompatibility]
                              /\ UNCHANGED <<pc, outcome, env_vars>>
                         ELSE \E results \in
                                  [1..validate_results(o.augments, env_state)
                                     -> CheckResults] :
                              \E v \in {validate_augments(o.augments,
                                                          env_state, results)} :
                                    /\ fits(results, v.env)
                                    /\ augments' =
                                          commit(augments, v.augments,
                                                 /\ ~v.raised
                                                 /\ v.invalid_augments = <<>>)
                                    /\ applied_tools' = v.env.applied_tools
                                    /\ applied_checks' = v.env.applied_checks
                                    /\ current' = v.env.current
                                    /\ call_log' = pass_log(log, v)
                                    /\ last_pass' =
                                          pass_record(IF v.raised THEN "raised"
                                                      ELSE "validated", v,
                                                      results)
                                    /\ IF v.raised
                                       THEN /\ call_returns
                                            /\ outcome' = [op |-> "AddAugment",
                                                   result |-> "raised"]
                                       ELSE IF v.invalid_augments # <<>>
                                       THEN /\ change' = new_change
                                            /\ changes' = pending \o
                                                  new_changes(new_change,
                                                     v.invalid_augments)
                                            /\ loc_augments' = v.augments
                                            /\ do_loop' = FALSE
                                            /\ UNCHANGED <<pc, outcome>>
                                       ELSE /\ call_returns
                                            /\ outcome' = [op |-> "AddAugment",
                                                   result |-> "added"]
    /\ UNCHANGED <<world_vars, base_vars, session_vars>>

(***************************************************************************)
(* ConfExEnvironment.Finalize behind ConfExBase.Finish (session handle 1,  *)
(* no post-configure variables set).                                       *)
(***************************************************************************)
RECURSIVE finalize_collect(_, _, _)
finalize_collect(augs, i, acc) ==
    IF i > Len(augs) THEN acc
    ELSE finalize_collect(augs, i + 1,
            [tools |-> IF augs[i].Tool # None
                       THEN Append(acc.tools, augs[i].Tool) ELSE acc.tools,
             checks |-> acc.checks \o augs[i].Specification.Checks])

finalize_inputs == finalize_collect(augments, 1,
                                    [tools |-> <<>>, checks |-> <<>>])

Finalize(results) ==
    apply_env(finalize_inputs.tools, TRUE, <<>>, finalize_inputs.checks,
              env_state, results)

finalize_results ==
    checks_executed(check_list(<<>>, finalize_inputs.checks),
        apply_env_start(finalize_inputs.tools, TRUE, env_state).applied_checks)

Finish ==
    /\ pc = "idle"
    /\ \E results \in [1..finalize_results -> CheckResults] :
         \E e \in {Finalize(results)} :
             /\ fits(results, e)
             /\ applied_tools' = e.applied_tools
             /\ applied_checks' = e.applied_checks
             /\ current' = e.current
             /\ last_pass' = [step |-> IF e.raised THEN "finalize_raised"
                                       ELSE "finalize",
                              failed |-> SeqSet(e.failed_checks),
                              executed |-> e.executed,
                              results |-> given(results, e.executed),
                              reset |-> e.reset,
                              tools |-> finalize_inputs.tools,
                              augments |-> augments, conflict |-> <<>>,
                              required |-> <<>>,
                              optional |-> finalize_inputs.checks]
             /\ IF e.raised
                THEN /\ outcome' = [op |-> "Finish", result |-> "raised"]
                     /\ UNCHANGED base_vars
                ELSE /\ outcome' = [op |-> "Finish", result |-> "env"]
                     /\ Active' = FALSE
                     /\ handles' = [handles EXCEPT ![1].state = "finished"]
    /\ UNCHANGED <<world_vars, cache_vars, augments, call_vars, session_vars>>

(***************************************************************************)
(* The worlds the resolver is run in: the keys of the base environment,    *)
(* the effect of each tool and the provider order the cache starts with    *)
(* (SetToolsCache and the TOOLS of the environment).                       *)
(***************************************************************************)
Effect(tools, first, second) ==
    [tools |-> tools, first |-> first, second |-> second]

Worlds ==
    { \* two providers of c1, the second one also supplying c2
      [env_base |-> {},
       tool_effect |-> [t \in ToolNames |->
           IF t = "t1" THEN Effect(<<"t1">>, {"c1"}, {})
           ELSE Effect(<<"t2">>, {"c1", "c2"}, {})],
       Tools |-> <<"t1", "t2">>],
      \* c1 is a key of the base environment; t1 may overlap other tools
      [env_base |-> {"c1"},
       tool_effect |-> [t \in ToolNames |->
           IF t = "t1" THEN Effect(<<"t1">>, {"c1", "c2"}, {"c1", "c2"})
           ELSE Effect(<<"t2">>, {"c2"}, {})],
       Tools |-> <<"t1", "t2">>],
      \* c2 is a key of the base environment; t2 is a toolchain that brings
      \* t1 along (TOOLS gets the name of a tool before the tool runs)
      [env_base |-> {"c2"},
       tool_effect |-> [t \in ToolNames |->
           IF t = "t1" THEN Effect(<<"t1">>, {"c1"}, {"c1"})
           ELSE Effect(<<"t2", "t1">>, {"c1", "c2"}, {"c1"})],
       Tools |-> <<"t2">>] }

NoHandle == [state |-> "none", mode |-> "configure",
             listing |-> [c \in {} |-> <<>>]]

\* checks whose result is not tied to the applied tools
AnyResult == CheckIds \X (SUBSET ToolNames) \X PyResults

\* the resolver of a session right after ConfExEnvironment.__init__
ResolverInit(worlds, effects) ==
    /\ \E w \in worlds :
          /\ env_base = w.env_base
          /\ tool_effect = w.tool_effect
          /\ Tools = w.Tools
    /\ check_effect \in effects
    /\ Components = [t \in {} |-> [c \in {} |-> "overlap"]]
    /\ augments = <<>>
    /\ applied_tools = <<>>
    /\ applied_checks = <<>>
    /\ current = [TOOLS |-> BaseTOOLS, applied |-> <<>>, unpassed |-> {}]
    /\ calls = 0
    /\ pc = "idle"
    /\ loc_augments = <<>>
    /\ change = <<>>
    /\ changes = <<>>
    /\ do_loop = FALSE
    /\ call_log = new_log(<<>>, 0)
    /\ last_pass = no_pass

\* the state after env.ConfigureEx() returned session handle 1
Init ==
    /\ ResolverInit(Worlds, {AnyResult})
    /\ outcome = [op |-> "ConfigureEx", result |-> "session"]
    /\ Active = TRUE
    /\ handles = [h \in 1..MaxHandles |->
                     IF h = 1 THEN [NoHandle EXCEPT !.state = "active"]
                     ELSE NoHandle]

Next ==
    \/ \E request \in Requests : calls < MaxCalls /\ AddAugment(request)
    \/ AddAugmentLoop
    \/ Finish

Spec == Init /\ [][Next]_vars

(***************************************************************************)
(* Longer sessions: up to MaxChain calls of FindComponent, each with a     *)
(* list of candidates, with or without the check k1, no dependencies.      *)
(***************************************************************************)
ChainRequests ==
    {[Components |-> l, Checks |-> c, Dependencies |-> {}] :
        l \in CandidateLists, c \in {<<>>, <<"k1">>}}

ChainNext ==
    \/ \E request \in ChainRequests :
          calls < MaxChain /\ AddAugment(request)
    \/ AddAugmentLoop
    \/ Finish

ChainSpec == Init /\ [][ChainNext]_vars

(***************************************************************************)
(* Sessions with a check whose result is a fixed function of the set of    *)
(* applied tools: the check k1 returns True or False, the same each time   *)
(* it is run with the same tools applied.                                  *)
(***************************************************************************)
FixedEffects ==
    {{<<"k1", T, f[T]>> : T \in SUBSET ToolNames} :
        f \in [SUBSET ToolNames -> {"True", "False"}]}

FixedInit ==
    /\ ResolverInit(Worlds, FixedEffects)
    /\ outcome = [op |-> "ConfigureEx", result |-> "session"]
    /\ Active = TRUE
    /\ handles = [h \in 1..MaxHandles |->
                     IF h = 1 THEN [NoHandle EXCEPT !.state = "active"]
                     ELSE NoHandle]

FixedSpec == FixedInit /\ [][ChainNext]_vars

(***************************************************************************)
(* Sessions that drive the retry loop: up to MaxChain calls of             *)
(* FindComponent, each with a check and with candidates that have more     *)
(* than one selection or name a candidate twice.                           *)
(***************************************************************************)
RetryRequests ==
    {[Components |-> l, Checks |-> <<k>>, Dependencies |-> {}] :
        l \in CandidateLists \ {<<"c1">>}, k \in CheckIds}

RetryNext ==
    \/ \E request \in RetryRequests :
          calls < MaxChain /\ AddAugment(request)
    \/ AddAugmentLoop
    \/ Finish

RetrySpec == Init /\ [][RetryNext]_vars

(***************************************************************************)
(* ConfExEnvironment._apply_env called on its own: no tools, lists of      *)
(* required and optional checks, and checks that return any result.        *)
(***************************************************************************)
CheckSeqs(n) == UNION {[1..m -> CheckIds] : m \in 0..n}

apply_checks(req_checks, opt_checks) ==
    /\ pc = "idle"
    /\ \E results \in [1..checks_executed(check_list(req_checks, opt_checks),
                                           applied_checks) -> PyResults] :
         \E e \in {apply_env(<<>>, FALSE, req_checks, opt_checks, env_state,
                             results)} :
             /\ fits(results, e)
             /\ applied_tools' = e.applied_tools
             /\ applied_checks' = e.applied_checks
             /\ current' = e.current
             /\ last_pass' = [step |-> "checks",
                              failed_checks |-> e.failed_checks,
                              executed |-> e.executed,
                              given |-> SubSeq(results, 1, Len(e.executed))]
             /\ outcome' = [op |-> "_apply_env",
                            result |-> IF e.raised THEN "raised"
                                       ELSE "failed_checks"]
    /\ UNCHANGED <<world_vars, cache_vars, augments, call_vars, session_vars,
                   base_vars>>

ChecksNext ==
    \E req_checks \in CheckSeqs(MaxChecks), opt_checks \in CheckSeqs(1) :
        apply_checks(req_checks, opt_checks)

ChecksSpec == Init /\ [][ChecksNext]_vars

(***************************************************************************)
(* The look-ups called on their own: ConfExCache.GetTool with a reference  *)
(* pair it returned before (or with none), and _set_component on one       *)
(* augment, first with offset 0 and then with offsets up to MaxOffset in   *)
(* either direction.  outcome records the call and what it handed back.    *)
(***************************************************************************)
Offsets == (0 - MaxOffset)..MaxOffset

\* the pairs a look-up can be given as its reference: none, or a tool the
\* cache has the components of with a candidate the tool supplies
references(components) ==
    {<<None, None>>}
    \cup {tc \in (DOMAIN Components) \X SeqSet(components) :
             tc[2] \in DOMAIN Components[tc[1]]}

LookUp(components, ref, offset) ==
    /\ pc = "idle"
    /\ ref = <<None, None>> => offset = 0
    /\ \E g \in {GetTool(Tools, Components, components, ref[2], ref[1],
                         offset)} :
          /\ Tools' = g.Tools
          /\ Components' = g.Components
          /\ outcome' = [op |-> "GetTool", components |-> components,
                         ref |-> ref, offset |-> offset,
                         result |-> IF g.found THEN <<g.tool, g.component>>
                                    ELSE None]
    /\ UNCHANGED <<world_vars, env_vars, session_vars, call_vars, last_pass,
                   base_vars>>

\* _set_component on a fresh augment (offset 0) and on the augment it left
\* (offset # 0); from is the selection before the call
probe(augment, offset) ==
    \E r \in {set_component(augment, offset, Tools, Components)} :
        /\ Tools' = r.Tools
        /\ Components' = r.Components
        /\ loc_augments' = <<set_augment(augment, r)>>
        /\ outcome' = [op |-> "_set_component", offset |-> offset,
                       result |-> r.component_set,
                       from |-> <<augment.Tool, augment.Component>>]
        /\ UNCHANGED <<world_vars, env_vars, session_vars, pc, change,
                       changes, do_loop, call_log, last_pass, base_vars>>

Select(components) ==
    /\ pc = "idle"
    /\ probe(new_augment(ConfExSpecification(1,
                 [Components |-> components, Checks |-> <<>>,
                  Dependencies |-> {}])), 0)

Probe(offset) ==
    /\ pc = "idle"
    /\ loc_augments # <<>>
    /\ loc_augments[1].Component # None
    /\ offset # 0
    /\ probe(loc_augments[1], offset)

ProbeNext ==
    \/ \E components \in CandidateLists : Select(components)
    \/ \E offset \in Offsets : Probe(offset)
    \/ \E components \in CandidateLists :
          \E ref \in references(components), offset \in Offsets :
              LookUp(components, ref, offset)

ProbeSpec == Init /\ [][ProbeNext]_vars

(***************************************************************************)
(* ConfExCache.AddTool called on caches of four tools.  t3 is a toolchain: *)
(* of t1 and t2, or of the toolchain t2 of t1.  Detect returns the names   *)
(* a tool adds to TOOLS: its own name, then those of the tools it applies. *)
(***************************************************************************)
CacheTools == {"t1", "t2", "t3", "t4"}

Simple(t) == Effect(<<t>>, {"c1"}, {})

CacheEffects ==
    { [t \in CacheTools |->
          IF t = "t3" THEN Effect(<<"t3", "t1", "t2">>, {"c1"}, {})
          ELSE Simple(t)],
      [t \in CacheTools |->
          IF t = "t3" THEN Effect(<<"t3", "t2", "t1">>, {"c1"}, {})
          ELSE IF t = "t2" THEN Effect(<<"t2", "t1">>, {"c1"}, {})
          ELSE Simple(t)] }

\* the tool orders a cache can be given: no name twice
CacheOrders ==
    UNION {{T \in [1..n -> CacheTools] : \A i, j \in 1..n : T[i] = T[j] => i = j}
           : n \in 0..Cardinality(CacheTools)}

CacheWorlds ==
    {[env_base |-> {}, tool_effect |-> e, Tools |-> T] :
        e \in CacheEffects, T \in CacheOrders}

CacheInit ==
    /\ ResolverInit(CacheWorlds, {AnyResult})
    /\ outcome = [op |-> "ConfigureEx", result |-> "session"]
    /\ Active = TRUE
    /\ handles = [h \in 1..MaxHandles |->
                     IF h = 1 THEN [NoHandle EXCEPT !.state = "active"]
                     ELSE NoHandle]

Register(tool) ==
    /\ pc = "idle"
    /\ \E a \in {AddTool(Tools, Components, tool)} :
          /\ Tools' = a.Tools
          /\ Components' = a.Components
    /\ outcome' = [op |-> "AddTool", tool |-> tool]
    /\ UNCHANGED <<world_vars, env_vars, session_vars, call_vars, last_pass,
                   base_vars>>

CacheNext == \E tool \in CacheTools : Register(tool)

CacheSpec == CacheInit /\ [][CacheNext]_vars

(***************************************************************************)
(* ConfExBase: the session handles of a process.  Here the resolver of a   *)
(* session is seen through what AddAugment and Finalize hand back (True,   *)
(* False or an exception, as under Spec); the state is the class attribute *)
(* _Active and, per handle, its life cycle, its mode and its listing.      *)
(***************************************************************************)
Kinds == {"Require", "FindComponent", "FindLibrary", "FindProgram"}

Names == {None, "n1"}

\* the class_type each entry point hands to __is_listing
class_type(k) ==
    CASE k = "Require" -> "REQUIRES"
      [] k = "FindComponent" -> "COMPONENT"
      [] k = "FindLibrary" -> "LIBRARY"
      [] k = "FindProgram" -> "PROGRAM"

\* the error each entry point raises when __find hands back no spec
ConfExError(k) ==
    CASE k = "Require" -> "RequirementNotMet"
      [] k = "FindComponent" -> "ToolNotFound"
      [] k = "FindLibrary" -> "LibraryNotFound"
      [] k = "FindProgram" -> "ProgramNotFound"

\* find_result with the error of FindComponent raised by every entry point
find_result_untyped(k, added) ==
    IF added = "raised" THEN "raised"
    ELSE IF added = "True" THEN "Spec"
    ELSE "ToolNotFound"

\* ConfExBase.__find and the test of its result in the entry point;
\* added is what AddAugment did: returned "True" or "False", or "raised"
find_result(k, added) ==
    IF added = "raised" THEN "raised"
    ELSE IF added = "True" THEN "Spec"
    ELSE ConfExError(k)

\* the argument test at the head of each entry point: Require and
\* FindComponent test their first argument, the other two the name
valid_args(k, arg, name) ==
    IF k \in {"FindLibrary", "FindProgram"} THEN name # None ELSE arg

\* ConfExBase.__is_listing: the listing as the call leaves it
is_listing(listing, ct, name) ==
    IF name = None THEN listing
    ELSE [c \in DOMAIN listing \cup {ct} |->
             IF c = ct
             THEN IF ct \in DOMAIN listing THEN Append(listing[ct], name)
                  ELSE <<name>>
             ELSE listing[c]]

\* the names a listing holds
RECURSIVE listing_size(_, _)
listing_size(listing, cts) ==
    IF cts = {} THEN 0
    ELSE LET c == CHOOSE x \in cts : TRUE
         IN  Len(listing[c]) + listing_size(listing, cts \ {c})

created == {h \in 1..MaxHandles : handles[h].state # "none"}

active_sessions == {h \in 1..MaxHandles : handles[h].state = "active"}

\* ConfExBase.__init__, called for the next handle of the process
ConfigureEx(mode) ==
    /\ Cardinality(created) < MaxHandles
    /\ LET h == Cardinality(created) + 1
       IN  IF Active
           THEN /\ outcome' = [op |-> "ConfigureEx", added |-> "not called",
                               result |-> "RuntimeError"]
                /\ UNCHANGED base_vars
           ELSE /\ Active' = TRUE
                /\ handles' = [handles EXCEPT ![h] =
                                  [state |-> "active", mode |-> mode,
                                   listing |-> NoHandle.listing]]
                /\ outcome' = [op |-> "ConfigureEx", added |-> "not called", result |-> "session"]
    /\ UNCHANGED <<world_vars, cache_vars, env_vars, session_vars, call_vars,
                   last_pass>>

\* ConfExBase.Require / FindComponent / FindLibrary / FindProgram
Find(h, k, arg, name) ==
    /\ h \in created
    /\ IF ~valid_args(k, arg, name)
       THEN /\ outcome' = [op |-> k, added |-> "not called",
                           result |-> "ValueError"]
            /\ UNCHANGED handles
       ELSE IF handles[h].mode = "listing"
       THEN /\ name # None =>
                 listing_size(handles[h].listing,
                              DOMAIN handles[h].listing) < MaxListing
            /\ handles' = [handles EXCEPT ![h].listing =
                              is_listing(@, class_type(k), name)]
            /\ outcome' = [op |-> k, added |-> "not called",
                           result |-> "None"]
       ELSE /\ \E added \in {"True", "False", "raised"} :
                 outcome' = [op |-> k, added |-> added,
                             result |-> find_result(k, added)]
            /\ UNCHANGED handles
    /\ UNCHANGED <<world_vars, cache_vars, env_vars, session_vars, call_vars,
                   last_pass, Active>>

\* ConfExBase.Finish on any handle that exists, finished ones included
SessionFinish(h) ==
    /\ h \in created
    /\ IF handles[h].mode = "listing"
       THEN /\ Active' = FALSE
            /\ handles' = [handles EXCEPT ![h].state = "finished"]
            /\ outcome' = [op |-> "Finish", added |-> "not called", result |-> "None"]
       ELSE \E finalized \in {"env", "raised"} :
              /\ outcome' = [op |-> "Finish", added |-> "not called", result |-> finalized]
              /\ IF finalized = "raised"
                 THEN UNCHANGED base_vars
                 ELSE /\ Active' = FALSE
                      /\ handles' = [handles EXCEPT ![h].state = "finished"]
    /\ UNCHANGED <<world_vars, cache_vars, env_vars, session_vars, call_vars,
                   last_pass>>

SessionInit ==
    /\ ResolverInit({CHOOSE w \in Worlds : TRUE}, {AnyResult})
    /\ outcome = [op |-> "none", added |-> "not called", result |-> "none"]
    /\ Active = FALSE
    /\ handles = [h \in 1..MaxHandles |-> NoHandle]

SessionNext ==
    \/ \E mode \in {"configure", "listing"} : ConfigureEx(mode)
    \/ \E h \in 1..MaxHandles, k \in Kinds, arg \in BOOLEAN, name \in Names :
          Find(h, k, arg, name)
    \/ \E h \in 1..MaxHandles : SessionFinish(h)

SessionSpec == SessionInit /\ [][SessionNext]_vars

(***************************************************************************)
(* Properties of the resolver (Spec).                                      *)
(***************************************************************************)
\* C2: a check that raises during a validation pass or during Finalize is
\* handled like a check that returned False; the error never reaches the
\* caller of AddAugment or Finish.
C2_CheckErrorContained ==
    "raise" \in last_pass.results => outcome.result # "raised"

\* C3: every augment of the committed list is valid, after every AddAugment
\* call, successful or failed.
C3_CommittedValid ==
    \A i \in 1..Len(augments) : augments[i].Valid

\* C3 witness: a second augment was committed after retries
C3_Witness ==
    /\ outcome = [op |-> "AddAugment", result |-> "added"]
    /\ Len(augments) = 2
    /\ call_log.retries > 0

\* C6: with checks that only pass or fail, AddAugment hands back success
\* or failure and no error escapes to its caller.
C6_NothingEscapes ==
    (outcome.op = "AddAugment" /\ "raise" \notin last_pass.results)
        => outcome.result # "raised"

\* the tools of the cache that supply component c, in cache order
providers(c) ==
    SelectSeq(Tools, LAMBDA t : c \in DOMAIN Detect(t).components)

\* the last AddAugment call has returned True or False
returned ==
    /\ pc = "idle"
    /\ outcome.op = "AddAugment"
    /\ outcome.result \in {"added", "failed"}

\* in the call, the check of the request failed whenever one of P[1..k] was
\* the chosen provider and passed with P[k+1]
check_pattern(P, k) ==
    /\ \A j \in 1..Len(call_log.tried) :
          call_log.tried[j][1] \in {P[i] : i \in 1..k}
              => ~call_log.tried[j][2]
    /\ \E j \in 1..Len(call_log.tried) : call_log.tried[j][1] = P[k + 1]
    /\ \A j \in 1..Len(call_log.tried) :
          call_log.tried[j][1] = P[k + 1] => call_log.tried[j][2]

\* the call succeeded with provider P[k+1] after exactly k retries
resolved_with(P, k) ==
    /\ outcome.result = "added"
    /\ augments[augment_index(augments, calls, 1)].Tool = P[k + 1]
    /\ call_log.retries = k

\* C7 as stated: if the base environment lacks component C, the cache lists
\* the providers P1..Pn of C in that order, and the check of the request
\* fails with P1..Pk and passes with P(k+1), AddAugment succeeds with
\* provider P(k+1) after exactly k retries.
C7_ScenarioA ==
    (/\ returned
     /\ Len(call_log.Components) = 1
     /\ call_log.Components[1] \notin env_base) =>
        \A k \in 0..(Len(providers(call_log.Components[1])) - 1) :
            check_pattern(providers(call_log.Components[1]), k)
                => resolved_with(providers(call_log.Components[1]), k)

\* C7 as amended: the same, for a call in which no ordering incompatibility
\* is reported and no other augment is marked invalid.
C7_ScenarioAClean ==
    (/\ returned
     /\ call_log.clean
     /\ Len(call_log.Components) = 1
     /\ call_log.Components[1] \notin env_base) =>
        \A k \in 0..(Len(providers(call_log.Components[1])) - 1) :
            check_pattern(providers(call_log.Components[1]), k)
                => resolved_with(providers(call_log.Components[1]), k)

\* C7 witness: the check failed with the first provider and passed with the
\* second, which was chosen after one retry
C7_Witness ==
    /\ returned
    /\ call_log.clean
    /\ Len(call_log.Components) = 1
    /\ Len(providers(call_log.Components[1])) = 2
    /\ check_pattern(providers(call_log.Components[1]), 1)
    /\ resolved_with(providers(call_log.Components[1]), 1)

\* C8: when two or more committed augments have the same provider X, X
\* occurs exactly once in the applied-provider sequence after Finalize.
C8_AppliedOnce ==
    (outcome = [op |-> "Finish", result |-> "env"]) =>
        \A t \in ToolNames :
            Cardinality({i \in 1..Len(augments) : augments[i].Tool = t}) >= 2
                => Count(applied_tools, t) = 1

\* the selections a specification can be given: a candidate that is a key
\* of the base environment, or a candidate together with a tool supplying it
selections(spec) ==
    {<<None, c>> : c \in SeqSet(spec.Components) \cap env_base}
    \cup {tc \in ToolNames \X SeqSet(spec.Components) :
             tc[2] \in DOMAIN Detect(tc[1]).components}

\* C4: every AddAugment call terminates: the retry loop moves an augment to
\* its next selection at most once per selection its specification has, so
\* the change sets cannot grow without end.
C4_ProbesBounded ==
    \A i \in 1..Len(loc_augments) :
        Count(change, loc_augments[i].Specification.id)
            < Cardinality(selections(loc_augments[i].Specification))
              + (IF loc_augments[i].Specification.Components = <<>>
                 THEN 1 ELSE 0)

\* C9: when a candidate of a specification is a key of the base
\* environment, the initial selection is a local one (no tool), made without
\* a GetTool call, and it leaves the tools and components of the cache as
\* they were.
C9_LocalFirst ==
    [][(/\ pc = "idle"
        /\ outcome'.op = "AddAugment"
        /\ SeqSet(call_log'.Components) \cap env_base # {})
       => /\ pc' = "loop"
          /\ loc_augments'[Len(loc_augments')].Tool = None
          /\ loc_augments'[Len(loc_augments')].Component \in env_base
          /\ call_log'.cache_calls = 0
          /\ Tools' = Tools
          /\ Components' = Components]_vars

\* C9 witness: a local selection of the second candidate, the first one
\* being supplied by tools only
C9_Witness ==
    /\ pc = "loop"
    /\ last_pass.step = "select"
    /\ Len(call_log.Components) = 2
    /\ call_log.Components[1] \notin env_base
    /\ loc_augments[Len(loc_augments)].Tool = None
    /\ loc_augments[Len(loc_augments)].Component = call_log.Components[2]
    /\ call_log.cache_calls = 0

\* the augment owns a check that failed in the last pass
owns_failed(a) == SeqSet(a.Specification.Checks) \cap last_pass.failed # {}

\* augment a names augment b as a dependency
depends_on(a, b) == b.Specification.id \in a.Specification.Dependencies

\* the augments of the last validation pass
validated == IF last_pass.step = "validated"
             THEN SeqSet(last_pass.augments) ELSE {}

\* C10 as stated: if A lists B as a dependency and a check of B fails in a
\* validation pass, the pass marks both B and A invalid, and it marks no
\* augment invalid that neither owns a failed check nor depends on an
\* augment that does.
C10_ScenarioD ==
    /\ \A a \in validated : \A b \in validated :
          (depends_on(a, b) /\ owns_failed(b)) => (~b.Valid /\ ~a.Valid)
    /\ \A a \in validated :
          ~a.Valid => \/ owns_failed(a)
                      \/ \E b \in validated :
                            depends_on(a, b) /\ owns_failed(b)

\* C10 as amended: the pass marks B invalid, A only when A owns a failed
\* check itself, and no augment that owns no failed check.
C10_OwnersOnly ==
    /\ \A a \in validated : \A b \in validated :
          (depends_on(a, b) /\ owns_failed(b))
              => (~b.Valid /\ (~a.Valid <=> owns_failed(a)))
    /\ \A a \in validated : ~a.Valid => owns_failed(a)

\* C10 witness: a check of B failed in a pass that left A, which depends on
\* B, valid
C10_Witness ==
    \E a \in validated : \E b \in validated :
        /\ depends_on(a, b)
        /\ owns_failed(b)
        /\ ~b.Valid
        /\ a.Valid

(***************************************************************************)
(* Properties of the session handles (SessionSpec).                        *)
(***************************************************************************)
\* C1: at every point of any sequence of ConfigureEx, Require / Find* and
\* Finish calls on any handle, a second Finish of a finished handle
\* included, at most one session is active (created and not yet finished).
C1_AtMostOneActive == Cardinality(active_sessions) <= 1

\* C5: whenever AddAugment returned, the caller of a request gets the
\* Specification exactly when it returned True, and otherwise the error of
\* the request kind: RequirementNotMet for Require, ToolNotFound for
\* FindComponent, LibraryNotFound for FindLibrary, ProgramNotFound for
\* FindProgram.
C5_TypedResult ==
    (outcome.op \in Kinds /\ outcome.added \in {"True", "False"}) =>
        /\ (outcome.result = "Spec") <=> (outcome.added = "True")
        /\ outcome.added = "False" =>
              /\ outcome.op = "Require" => outcome.result = "RequirementNotMet"
              /\ outcome.op = "FindComponent" =>
                    outcome.result = "ToolNotFound"
              /\ outcome.op = "FindLibrary" =>
                    outcome.result = "LibraryNotFound"
              /\ outcome.op = "FindProgram" =>
                    outcome.result = "ProgramNotFound"

\* C5 witness: a FindLibrary whose AddAugment returned False
C5_Witness ==
    /\ outcome.op = "FindLibrary"
    /\ outcome.added = "False"
    /\ outcome.result = "LibraryNotFound"

(***************************************************************************)
(* Properties of the committed list in longer sessions (ChainSpec).        *)
(***************************************************************************)
\* C11: in every committed augment list the augments that share a provider
\* are contiguous: between two augments of one tool there is no augment of
\* another tool and no augment without a tool.
C11_Contiguous ==
    \A i \in 1..Len(augments) : \A j \in 1..Len(augments) :
        (/\ i < j
         /\ augments[i].Tool # None
         /\ augments[i].Tool = augments[j].Tool)
            => \A k \in i..j : augments[k].Tool = augments[i].Tool

\* C11 witness: three committed augments of two tools; the third request
\* was moved next to the first one, in front of the second
C11_Witness ==
    /\ Len(augments) = 3
    /\ augments[1].Tool # None
    /\ augments[1].Tool = augments[2].Tool
    /\ augments[3].Tool \notin {None, augments[1].Tool}
    /\ augments[3].Specification.id = 2


\* the committed augments that have a tool
provided == {i \in 1..Len(augments) : augments[i].Tool # None}

\* C12: for every pair of committed augments with distinct providers and
\* every component that both providers supply, the cache flags the component
\* as overlap-allowed (for at least one of the two providers); a pair whose
\* shared component is flagged no_overlap is never committed together, in
\* whatever order the two requests were made.
C12_OverlapOnly ==
    \A i \in provided : \A j \in provided :
        augments[i].Tool # augments[j].Tool =>
            \A c \in DOMAIN Components[augments[i].Tool]
                     \cap DOMAIN Components[augments[j].Tool] :
                \/ Components[augments[i].Tool][c] = "overlap"
                \/ Components[augments[j].Tool][c] = "overlap"

\* C14: a Finalize that directly follows a Finalize leaves the applied
\* tools and the environment as they are, applies no tool again (no reset)
\* and executes no check (Finalize has no required checks).
C14_FinalizeIdempotent ==
    [][(/\ outcome = [op |-> "Finish", result |-> "env"]
        /\ outcome'.op = "Finish")
       => /\ applied_tools' = applied_tools
          /\ current' = current
          /\ ~last_pass'.reset
          /\ last_pass'.executed = <<>>]_vars

\* the selection of an augment is one the cache or the base environment
\* offers
selected(a) ==
    /\ a.Tool # None =>
          /\ a.Tool \in DOMAIN Components
          /\ a.Component \in DOMAIN Components[a.Tool]
    /\ (a.Tool = None /\ a.Component # None) => a.Component \in env_base

\* C15: in the committed list, in the tentative list of a call and in every
\* list handed to ordering or validation, an augment with a tool has a
\* component that the cache lists for that tool, and an augment without a
\* tool has no component or one that is a key of the base environment.
C15_SelectionKnown ==
    /\ \A i \in 1..Len(augments) : selected(augments[i])
    /\ \A i \in 1..Len(loc_augments) : selected(loc_augments[i])
    /\ \A i \in 1..Len(last_pass.augments) : selected(last_pass.augments[i])

\* C15 witness: after a retry, a list with a tool selection and a local
\* selection was validated
C15_Witness ==
    /\ last_pass.step = "validated"
    /\ call_log.retries > 0
    /\ \E i \in 1..Len(last_pass.augments) :
          last_pass.augments[i].Tool # None
    /\ \E i \in 1..Len(last_pass.augments) :
          /\ last_pass.augments[i].Tool = None
          /\ last_pass.augments[i].Component # None

\* a sequence without the repetitions of its elements (first occurrences)
RECURSIVE distinct(_)
distinct(s) ==
    IF s = <<>> THEN <<>>
    ELSE LET d == distinct(SubSeq(s, 1, Len(s) - 1))
         IN  IF s[Len(s)] \in SeqSet(d) THEN d ELSE Append(d, s[Len(s)])

C17_FinalChecks ==
    (outcome = [op |-> "Finish", result |-> "env"]) =>
        SeqSet(finalize_inputs.checks) \subseteq SeqSet(last_pass.executed)

\* C18: when a check of a committed augment fails in the pass of Finalize,
\* Finalize does not hand the environment back as configured; it reports
\* the failure.
C18_FinalValidated ==
    (outcome.op = "Finish" /\ last_pass.failed # {}) => outcome.result # "env"

\* C19: once Finish has returned the environment of the session, every
\* later request on the session is rejected: no AddAugment call is started
\* or succeeds, and the committed list and the environment stay as they are.
C19_Retired ==
    [][(handles[1].state = "finished" /\ outcome'.op = "AddAugment")
       => /\ outcome'.result \notin {"pending", "added"}
          /\ augments' = augments
          /\ current' = current]_vars

\* C20: the committed list changes in one step only, the step in which an
\* AddAugment call succeeds, and then it becomes the tentative list of the
\* accepted pass; a call that is still running, fails or raises leaves the
\* committed list (augments, order, component, tool and valid flag of each)
\* as it was before the call.
C20_AtomicCommit ==
    [][/\ augments' # augments =>
             /\ outcome' = [op |-> "AddAugment", result |-> "added"]
             /\ pc' = "idle"
             /\ augments' = last_pass'.augments
       /\ (outcome'.op = "AddAugment" /\ outcome'.result # "added") =>
             augments' = augments
       /\ (outcome'.op = "AddAugment" /\ outcome'.result = "added") =>
             augments' = last_pass'.augments]_vars

\* C20 witness: a call failed after retries in which the clone of a
\* committed augment was marked invalid or reported as incompatible
C20_Witness ==
    /\ pc = "idle"
    /\ outcome = [op |-> "AddAugment", result |-> "failed"]
    /\ Len(augments) = 1
    /\ call_log.retries > 0
    /\ ~call_log.clean

(***************************************************************************)
(* Properties of one _apply_env call (ChecksSpec).                         *)
(***************************************************************************)
\* the executed checks whose result is False or a non-empty string
RECURSIVE failures(_, _)
failures(executed, results) ==
    IF executed = <<>> THEN <<>>
    ELSE (IF Head(results) \in {"False", "'error'"} THEN <<Head(executed)>>
          ELSE <<>>)
         \o failures(Tail(executed), Tail(results))

AllComponents == [t \in ToolNames |-> Detect(t).components]

\* the specification of the running AddAugment call
requested ==
    loc_augments[augment_index(loc_augments, calls, 1)].Specification

\* the committed list followed by the requested augment with selection sel
alternative(sel) ==
    Append(augments, [Specification |-> requested, Component |-> sel[2],
                      Tool |-> sel[1], Valid |-> FALSE])

\* the list orders without incompatibility and each of its checks passes
\* with the tools of the list applied
satisfies(L) ==
    /\ order_augments(L, AllComponents).incompatibility = <<>>
    /\ \A i \in 1..Len(L) : \A k \in SeqSet(L[i].Specification.Checks) :
          <<k, {L[j].Tool : j \in 1..Len(L)} \ {None}, "True">>
              \in check_effect

\* C22: with a check whose result is a fixed function of the applied tools,
\* when AddAugment returns failure for a request, no selection of the
\* request gives, together with the committed augments as they are, a list
\* that orders without incompatibility and whose checks pass.
C22_SearchComplete ==
    [][(pc = "loop" /\ pc' = "idle" /\ outcome'.result = "failed")
       => \A sel \in selections(requested) : ~satisfies(alternative(sel))]_vars

(***************************************************************************)
(* Properties of the component selection.                                  *)
(***************************************************************************)
\* the candidates of a list that tool t supplies, each once, in candidate
\* order
supplied(t, components) ==
    SelectSeq(components, LAMBDA c : c \in DOMAIN Detect(t).components)

RECURSIVE once(_)
once(s) ==
    IF s = <<>> THEN <<>>
    ELSE <<Head(s)>> \o once(SelectSeq(Tail(s), LAMBDA x : x # Head(s)))

\* the reference enumeration M: every pair <<tool, component>> of a tool of
\* the list T and a candidate it supplies, by tool position and then by
\* candidate position
RECURSIVE matches(_, _)
matches(T, components) ==
    IF T = <<>> THEN <<>>
    ELSE LET cs == once(supplied(Head(T), components))
         IN  [i \in 1..Len(cs) |-> <<Head(T), cs[i]>>]
             \o matches(Tail(T), components)

\* the candidates of a list that are keys of the base environment
local(components) == SelectSeq(components, LAMBDA c : c \in env_base)

\* the augment of the running call
new == loc_augments[augment_index(loc_augments, calls, 1)]

\* C23: the initial selection of a request with candidates is the first
\* candidate that is a key of the base environment, with no tool; when there
\* is none it is the first match over the tools in cache order and, for one
\* tool, the candidates in candidate order; the selection fails only when
\* there is neither.
C23_InitialSelection ==
    [][(pc = "idle" /\ outcome'.op = "AddAugment"
               /\ call_log'.Components # <<>>)
       => LET components == call_log'.Components
              M == matches(Tools', components)
          IN  IF local(components) # <<>>
              THEN /\ pc' = "loop"
                   /\ new'.Tool = None
                   /\ new'.Component = local(components)[1]
              ELSE IF M # <<>>
              THEN /\ pc' = "loop"
                   /\ <<new'.Tool, new'.Component>> = M[1]
              ELSE /\ pc' = "idle"
                   /\ outcome'.result = "failed"]_vars

\* C23 witness: no candidate is a key of the base environment, the first
\* tool of the cache does not supply c2 and the second one was selected
C23_Witness ==
    /\ pc = "loop"
    /\ last_pass.step = "select"
    /\ env_base = {}
    /\ Tools = <<"t1", "t2">>
    /\ <<new.Tool, new.Component>> = <<"t2", "c2">>

(***************************************************************************)
(* Properties of the look-ups called on their own (ProbeSpec).             *)
(***************************************************************************)
\* C24: GetTool agrees with the reference enumeration M of the pairs of a
\* tool and a candidate it supplies: given the pair at index r of M and
\* offset k it returns the pair at index r + k when M has one and nothing
\* otherwise; given no reference and offset 0 it returns the first pair.
C24_ReferenceEnumeration ==
    outcome.op = "GetTool" =>
        LET M == matches(Tools, outcome.components)
            r == IF outcome.ref = <<None, None>> THEN 1
                 ELSE IndexOf(M, outcome.ref)
            k == outcome.offset
        IN  /\ r > 0
            /\ outcome.result = IF r + k \in 1..Len(M) THEN M[r + k]
                                ELSE None

\* C25: when _set_component has advanced the selection of an augment by
\* k >= 1 steps, stepping the augment back by k succeeds and gives the
\* selection (tool and component) the augment had before.
C25_Reversible ==
    (outcome.op = "_set_component" /\ outcome.offset > 0 /\ outcome.result)
        => LET back == set_component(loc_augments[1], 0 - outcome.offset,
                                     Tools, Components)
           IN  /\ back.component_set
               /\ <<back.Tool, back.Component>> = outcome.from

(***************************************************************************)
(* Properties of the retry loop of AddAugment.                             *)
(***************************************************************************)
\* the augment of specification id as it was when the retry loop started:
\* the committed one, or the new one with its initial selection
at_start(a) ==
    IF a.Specification.id = calls
    THEN LET fresh == new_augment(a.Specification)
         IN  set_augment(fresh, set_component(fresh, 0, Tools, Components))
    ELSE augments[augment_index(augments, a.Specification.id, 1)]

\* the selection of augment a after n probe steps forward, <<>> when a step
\* finds no component
RECURSIVE advanced(_, _)
advanced(a, n) ==
    IF n = 0 THEN <<a.Tool, a.Component>>
    ELSE LET r == set_component(a, 1, Tools, Components)
         IN  IF r.error \/ ~r.component_set THEN <<>>
             ELSE advanced(set_augment(a, r), n - 1)

\* C26: while the retry loop of an AddAugment call runs, so at every
\* ordering and validation attempt and also after a delta that was applied
\* partly, the selection of each augment is the one it had when the loop
\* started, advanced by as many probe steps as the augment occurs in the
\* current change list.
C26_ChangeExact ==
    pc = "loop" =>
        \A i \in 1..Len(loc_augments) :
            <<loc_augments[i].Tool, loc_augments[i].Component>> =
                advanced(at_start(loc_augments[i]),
                         Count(change, loc_augments[i].Specification.id))

\* C26 witness: the loop goes on after a delta of which one entry was
\* applied before a probe found no component
C26_Witness ==
    /\ pc = "loop"
    /\ call_log.partial
    /\ change # <<>>

\* the selection of the augment of specification id in a list
selection(augs, id) ==
    LET a == augs[augment_index(augs, id, 1)]
    IN  <<a.Tool, a.Component>>

\* the specifications whose augment has another selection after the step,
\* in the tentative list or, when the step commits it, in the committed one
changed ==
    LET after == IF pc' = "loop" THEN loc_augments'
                 ELSE IF outcome'.result = "added" THEN augments'
                 ELSE loc_augments
    IN  {id \in {loc_augments[i].Specification.id :
                       i \in 1..Len(loc_augments)} :
            selection(loc_augments, id) # selection(after, id)}

\* a retry step: a pending change list is taken and applied
retry == pc = "loop" /\ ~do_loop

\* C27 as stated: a retry step changes the selection of at most one augment.
C27_OneChange ==
    [][retry => Cardinality(changed) <= 1]_vars

\* C27, amended: a retry step changes the selection of those augments only
\* that occur in the change list taken and in the previous change list a
\* different number of times.
C27_DeltaOnly ==
    [][retry =>
          \A id \in changed :
              Count(changes[Len(changes)], id) # Count(change, id)]_vars

\* C27 witness: the second call validated its augment with one tool, then
\* with another, found no further candidate for it, and in its third retry
\* took the change list <<1>>: the first augment was advanced and the second
\* one stepped back to its first tool
C27_Witness ==
    /\ pc = "loop"
    /\ last_pass.step = "validated"
    /\ calls = 2
    /\ change = <<1>>
    /\ call_log.retries = 3
    /\ Len(call_log.tried) = 3
    /\ call_log.tried[1][1] # call_log.tried[2][1]
    /\ call_log.tried[1][1] = call_log.tried[3][1]
    /\ selection(loc_augments, 1) # selection(augments, 1)

\* a retry step in which a probe finds no component
exhausted == pc = "loop" /\ last_pass'.step = "no_component"

\* C28 as stated: when a probe step finds no further candidate, the call
\* returns failure.
C28_ExhaustedFails ==
    [][exhausted => (pc' = "idle" /\ outcome'.result = "failed")]_vars

\* C28, amended: a retry step in which a probe finds no further candidate
\* orders and validates nothing; the call returns failure when no pending
\* change list is left, and otherwise goes on with the pending ones.
C28_ExhaustedSkips ==
    [][exhausted =>
          /\ UNCHANGED <<augments, applied_tools, applied_checks, current>>
          /\ IF Len(changes) = 1
             THEN pc' = "idle" /\ outcome'.result = "failed"
             ELSE /\ pc' = "loop"
                  /\ outcome'.result = "pending"
                  /\ changes' = SubSeq(changes, 1, Len(changes) - 1)]_vars

\* C28 witness: a probe has found no component and the loop goes on with a
\* pending change list
C28_Witness ==
    /\ pc = "loop"
    /\ last_pass.step = "no_component"
    /\ changes # <<>>

(***************************************************************************)
(* Properties of requests without candidate components.                    *)
(***************************************************************************)
\* AddAugment is called with a specification that has no components
local_only ==
    pc = "idle" /\ outcome'.op = "AddAugment" /\ call_log'.Components = <<>>

\* the committed list with the augment of the call appended
appended ==
    /\ Len(augments') = Len(augments) + 1
    /\ augments'[Len(augments')].Specification.id = calls'
    /\ \A i \in 1..Len(augments) :
          /\ augments'[i].Specification = augments[i].Specification
          /\ selection(augments', augments[i].Specification.id)
                = selection(augments, augments[i].Specification.id)

\* C29: AddAugment with a specification without candidate components makes
\* one validation pass and no retry; it appends the augment to the committed
\* list and returns success when the pass reports no invalid augment, and
\* returns failure with the committed list unchanged otherwise.
C29_SinglePass ==
    [][local_only =>
          /\ pc' = "idle"
          /\ call_log'.retries = 0
          /\ IF last_pass'.step = "validated" /\ last_pass'.conflict = <<>>
             THEN outcome'.result = "added" /\ appended
             ELSE outcome'.result = "failed" /\ augments' = augments]_vars

(***************************************************************************)
(* Properties of the order of the committed list (ChainSpec).              *)
(***************************************************************************)
\* C30: in the committed list no augment is shadowed: for augments A before
\* B with different tools, the tool of B does not supply the component of A.
C30_NoShadowing ==
    \A i \in 1..Len(augments) : \A j \in (i + 1)..Len(augments) :
        (/\ augments[j].Tool # None
         /\ augments[j].Tool # augments[i].Tool
         /\ augments[i].Component # None)
            => augments[i].Component
                  \notin DOMAIN AllComponents[augments[j].Tool]

\* C30 witness: the ordering has put a later request before an earlier one;
\* its tool also supplies the component of the earlier request, which the
\* tool of the earlier request, applied after it, keeps in place
C30_Witness ==
    /\ Len(augments) >= 2
    /\ augments[1].Specification.id > augments[2].Specification.id
    /\ augments[1].Tool # None
    /\ augments[2].Tool # None
    /\ augments[1].Tool # augments[2].Tool
    /\ augments[2].Component \in DOMAIN AllComponents[augments[1].Tool]

(***************************************************************************)
(* Properties of _order_augments inside the retry loop.                    *)
(***************************************************************************)
\* the specification ids of a list, in list order
ids(augs) == [i \in 1..Len(augs) |-> augs[i].Specification.id]

\* no augment of the list has to move: no two augments share a tool and no
\* tool of one supplies the component of another
unrelated(augs) ==
    \A i \in 1..Len(augs) : \A j \in 1..Len(augs) :
        (i # j /\ augs[i].Tool # None)
            => /\ augs[i].Tool # augs[j].Tool
               /\ augs[j].Component \notin DOMAIN AllComponents[augs[i].Tool]

\* C31: _order_augments keeps the input order when no augment has to move,
\* and when it reports an incompatibility it leaves the list of the caller
\* in the order it had on entry.
C31_OrderKept ==
    [][(pc = "loop" /\ pc' = "loop")
       => /\ (last_pass'.step = "validated" /\ unrelated(loc_augments'))
                => ids(loc_augments') = ids(loc_augments)
          /\ last_pass'.step = "conflict"
                => ids(loc_augments') = ids(loc_augments)]_vars

(***************************************************************************)
(* Properties of the marking loop of _validate_augments.                   *)
(***************************************************************************)
\* the ids of the augments a pass left marked invalid, in list order
marked_invalid(augs) ==
    SelectSeq(ids(augs),
              LAMBDA id : \E i \in 1..Len(augs) :
                             /\ augs[i].Specification.id = id
                             /\ ~augs[i].Valid)

\* C32: after every validation pass an augment of the validated list is
\* marked invalid if and only if it owns a check that failed in that pass,
\* whether the check ran as a required or as an optional dependency check;
\* every other augment is marked valid and the pass returns exactly the
\* invalid ones.
C32_MarkedIffFailed ==
    last_pass.step = "validated"
        => /\ \A a \in validated : ~a.Valid <=> owns_failed(a)
           /\ last_pass.conflict = marked_invalid(last_pass.augments)

\* C32 witness: a check that ran as an optional dependency check failed and
\* the pass returned its owner, next to an augment it marked valid
C32_Witness ==
    /\ last_pass.step = "validated"
    /\ SeqSet(last_pass.optional) \cap last_pass.failed # {}
    /\ \E a \in validated :
           /\ SeqSet(a.Specification.Checks) \cap SeqSet(last_pass.optional)
                 \cap last_pass.failed # {}
           /\ ~a.Valid
           /\ a.Specification.id \in SeqSet(last_pass.conflict)
    /\ \E b \in validated : b.Valid

(***************************************************************************)
(* Properties of the check loop of _apply_env.                             *)
(***************************************************************************)
\* the number of times check k occurs in the sequence s
occurrences(s, k) == Cardinality({i \in 1..Len(s) : s[i] = k})

\* a pass of _apply_env has just returned
pass_returns == last_pass'.step \in {"validated", "finalize"}

\* the checks the pass was given and did not execute
skipped == SeqSet(last_pass'.optional) \ SeqSet(last_pass'.executed)

\* C33: every executed check is recorded in applied_checks; an optional
\* check that was already executed since the last reset of the environment
\* is not executed again; a required check is executed in every pass in
\* which it is required; and a check is skipped only if its earlier
\* execution passed.
C33_Memoization ==
    [][pass_returns
       => /\ SeqSet(last_pass'.executed) \subseteq SeqSet(applied_checks')
          /\ \A k \in SeqSet(last_pass'.optional) :
                (k \in SeqSet(applied_checks) /\ ~last_pass'.reset)
                    => occurrences(last_pass'.executed, k)
                           = occurrences(last_pass'.required, k)
          /\ \A k \in SeqSet(last_pass'.required) :
                occurrences(last_pass'.executed, k)
                    >= occurrences(last_pass'.required, k)
          /\ \A k \in skipped : k \notin current'.unpassed]_vars

(***************************************************************************)
(* Properties of the tool application of _apply_env.                       *)
(***************************************************************************)
\* _apply_env has just run: in a validation pass or in Finalize, whether
\* or not a check ended it
apply_step ==
    last_pass'.step \in {"validated", "raised", "finalize", "finalize_raised"}

\* the sequence a is a prefix of the sequence t
is_prefix(a, t) == Len(a) <= Len(t) /\ SubSeq(t, 1, Len(a)) = a

\* the tools after the first n of the sequence t
after(t, n) == SubSeq(t, n + 1, Len(t))

\* C34: whenever the desired tool sequence has the applied tool sequence as
\* a prefix, the apply step does not reset, applies only the tools after
\* that prefix, each exactly once, and applies no applied tool a second
\* time.
C34_PrefixReuse ==
    [][(apply_step /\ is_prefix(applied_tools, last_pass'.tools))
       => /\ ~last_pass'.reset
          /\ current'.applied
                = current.applied
                  \o after(last_pass'.tools, Len(applied_tools))
          /\ \A t \in SeqSet(applied_tools) :
                occurrences(current'.applied, t)
                    = occurrences(current.applied, t)]_vars

\* the elements of the sequence s that are in the set S, in their order
restrict(s, S) == SelectSeq(s, LAMBDA x : x \in S)

\* an applied tool is absent from the desired tool sequence
absent == SeqSet(applied_tools) \ SeqSet(last_pass'.tools) # {}

\* the applied tools occur in the desired sequence in another order
reordered ==
    restrict(applied_tools, SeqSet(last_pass'.tools))
        # restrict(last_pass'.tools, SeqSet(applied_tools))

\* the environment was reset and the whole desired sequence applied
from_scratch ==
    /\ last_pass'.reset
    /\ applied_tools' = last_pass'.tools
    /\ current'.applied = last_pass'.tools
    /\ SeqSet(applied_checks') = SeqSet(last_pass'.executed)

\* C35: in every apply step, of a validation pass or of Finalize, in which
\* an applied tool is absent from the desired tool sequence or the applied
\* tools occur in it in a different relative order, the environment is
\* reset (current derived from the base environment again, applied tools
\* and applied checks cleared) and the full desired sequence is applied.
C35_ResetRule ==
    [][(apply_step /\ (absent \/ reordered)) => from_scratch]_vars

\* the sequence t is the end of the sequence a
is_suffix(t, a) ==
    Len(t) <= Len(a) /\ SubSeq(a, Len(a) - Len(t) + 1, Len(a)) = t

\* C36: whenever checks are executed in a validation pass, the applied
\* tool sequence ends with the desired tool sequence: the desired tools are
\* its last elements, in the desired order.
C36_DesiredLast ==
    (last_pass.step \in {"validated", "raised"} /\ last_pass.executed # <<>>)
        => is_suffix(last_pass.tools, applied_tools)

(***************************************************************************)
(* Properties of the bookkeeping of the environment.                       *)
(***************************************************************************)
\* C37: after every completed AddAugment and Finalize the tools applied to
\* the current environment since it was derived from the base environment
\* are exactly the applied tools the session has recorded, in order, and
\* no operation modifies the base environment.
C37_Bookkeeping ==
    [][/\ pc' = "idle" => current'.applied = applied_tools'
       /\ env_base' = env_base]_vars

\* C37 witness: a call has returned after a pass that reset the environment
\* and applied tools to the new one
C37_Witness ==
    /\ pc = "idle"
    /\ last_pass.step \in {"validated", "finalize"}
    /\ last_pass.reset
    /\ Len(applied_tools) > 1
    /\ current.applied = applied_tools

(***************************************************************************)
(* Properties of the cache (ConfExCache.AddTool and GetTool).              *)
(***************************************************************************)
\* C38: the cache only grows: no tool name ever leaves the tool order, no
\* entry of the components map is removed, and the components of a tool
\* are written at most once (the recorded result never changes).
C38_CacheGrows ==
    [][/\ SeqSet(Tools) \subseteq SeqSet(Tools')
       /\ DOMAIN Components \subseteq DOMAIN Components'
       /\ \A t \in DOMAIN Components : Components'[t] = Components[t]]_vars

\* C38 witness: a look-up has added a tool to the order of a cache that
\* already held the components of another tool
C38_Witness ==
    /\ DOMAIN Components = {"t1", "t2"}
    /\ Tools = <<"t1", "t2">>
    /\ env_base = {"c2"}

\* the tools Detect shows the tool p to apply besides itself
members(p) == SeqSet(Detect(p).tools) \ {p}

\* the members of p are in the order T, directly ahead of p
expanded(T, p) ==
    LET i == IndexOf(T, p)
        k == Cardinality(members(p))
    IN  /\ members(p) \subseteq SeqSet(T)
        /\ i > k
        /\ SeqSet(SubSeq(T, i - k, i - 1)) = members(p)

\* C39: after AddTool(p) of a toolchain p every member of p is in the tool
\* order, the members stand immediately ahead of p, every name occurs once
\* in the order, the same holds for the members that are toolchains
\* themselves, and a second AddTool(p) changes nothing.
C39_Expansion ==
    [][outcome'.op = "AddTool"
       => /\ \A p \in {outcome'.tool} \cup members(outcome'.tool) :
                expanded(Tools', p)
          /\ Cardinality(SeqSet(Tools')) = Len(Tools')
          /\ (outcome.op = "AddTool" /\ outcome.tool = outcome'.tool)
                => (Tools' = Tools /\ Components' = Components)]_vars

=============================================================================
